---------------------------- MODULE Spec2Model ----------------------------
(***************************************************************************)
(* Delta-hedging Monte Carlo simulator (options_price_sim.py).             *)
(*                                                                         *)
(* Numbers.  Python floats are modelled as fixed-point integers: a value x *)
(* is held as x * Scale.  Prices, rates, times, volatilities, CDF values   *)
(* and deltas are held at Scale; a product of a CDF value or delta with a  *)
(* price (option prices, cash flows, P&L, cash, net) is held exactly at    *)
(* Scale * Scale.  The transcendental functions (sqrt, exp, log, the       *)
(* standard normal CDF) are computed numerically at that resolution.       *)
(* A pair <<x, y>> is a numpy row [call side, put side].                   *)
(***************************************************************************)
EXTENDS Integers, Sequences, FiniteSets

VARIABLES
    par,          \* the arguments of the call: entry, t, runs, r, rf, sigma, start, days, k, q
    pc,           \* position of the program
    err,          \* the exception that ended the program ("none" while it runs)
    ri,           \* run_sim: loop index i of line 185 (0-based)
    i,            \* sim: loop index i of line 120
    st_s,         \* sim: stock prices computed so far (st_s[1] is index 0)
    deltas,       \* sim: <<call delta, put delta>> per step
    terms,        \* sim: the remaining time passed to get_greeks per step
    ret,          \* sim: its return value (NoRet before it returns)
    prices,       \* run_sim: one price path per run
    cf,           \* run_sim: summed cash flow per run
    pnl,          \* run_sim: raw P&L per run
    shares,       \* run_sim: final deltas per run
    cash,         \* run_sim: financed cash per run
    stats,        \* run_sim: the 5 rounded statistics per run
    hist,         \* history: the return value of each invocation of sim, in order
    fileWritten,  \* data_1.csv has been written
    out,          \* run_sim: its return value (NoRet before it returns)
    simCalls,     \* history: how many times the body of sim has been entered
    bsIn, bsOut,  \* black_scholes_form called on its own: arguments and result
    gkIn, gkDelta, gkFull  \* get_greeks called on its own: arguments, delta-only and full results

vars == <<par, pc, err, ri, i, st_s, deltas, terms, ret, prices, cf, pnl, shares,
          cash, stats, hist, fileWritten, out, simCalls, bsIn, bsOut, gkIn, gkDelta, gkFull>>

simVars == <<par, pc, err, ri, i, st_s, deltas, terms, ret, prices, cf, pnl, shares,
             cash, stats, hist, fileWritten, out, simCalls>>

pureVars == <<bsIn, bsOut, gkIn, gkDelta, gkFull>>

-----------------------------------------------------------------------------
(* Bounds of the model *)

HalfScale == 50      \* fixed-point resolution: 0.50 is held as HalfScale
MaxHalfYears == 2    \* maturities are 0, 1/2, ..., MaxHalfYears/2 years
MaxDays == 3         \* trading periods per year are 0..MaxDays
MaxRuns == 2         \* run_sim simulates 0..MaxRuns paths

-----------------------------------------------------------------------------
(* Arithmetic *)

\* 1.00 in fixed point; even, so that norm.cdf(0) = 0.5 is held exactly
Scale == 2 * HalfScale

\* a / b rounded to the nearest integer (b # 0)
RDiv(a, b) == IF b > 0 THEN (2 * a + b) \div (2 * b) ELSE (b - 2 * a) \div (-2 * b)

Mul(a, b) == RDiv(a * b, Scale)
Div(a, b) == RDiv(a * Scale, b)

Max(a, b) == IF a >= b THEN a ELSE b

\* math.sqrt(x), x >= 0
Sqrt(x) == CHOOSE s \in 0..(x + Scale) : s * s <= x * Scale /\ (s + 1) * (s + 1) > x * Scale

\* math.exp(x) / np.exp(x), by its series (|x| is small here)
Exp(x) == Scale + x + RDiv(x * x, 2 * Scale) + RDiv(x * x * x, 6 * Scale * Scale)

\* math.log(y), y > 0, by the series of 2*atanh((y-1)/(y+1))
Log(y) ==
    LET z == Div(y - Scale, y + Scale)
    IN  2 * (z + RDiv(z * z * z, 3 * Scale * Scale))

\* the standard normal CDF at 0, 0.5, 1, ..., 4 in units of 1/10000
CdfTable == <<5000, 6915, 8413, 9332, 9772, 9938, 9987, 9998, 10000>>

\* scipy.stats.norm.cdf(x): the table interpolated linearly; the lower half
\* is the reflection of the upper half, as ndtr computes it
RECURSIVE Cdf(_)
Cdf(x) ==
    IF x < 0 THEN Scale - Cdf(-x)
    ELSE LET idx == (2 * x) \div Scale
         IN  IF idx >= 8 THEN Scale
             ELSE LET lo == CdfTable[idx + 1]
                      hi == CdfTable[idx + 2]
                      frac == 2 * x - idx * Scale
                  IN  RDiv((lo * Scale + (hi - lo) * frac), 10000)


-----------------------------------------------------------------------------
(* The Closed-Form Pricer and the Greeks Calculator *)

NoRet == [ok |-> FALSE, err |-> "none"]
Raise(e) == [ok |-> FALSE, err |-> e]

\* the exception line 218 raises, "none" when it raises none: math.sqrt(t)
\* of a negative t, 1/(sigma*sqrt(t)) with a zero divisor, s_t/k with k = 0,
\* math.log of a ratio that is not positive
BSError(t, k, s_t, sigma) ==
    IF t < 0 THEN "ValueError"
    ELSE IF sigma = 0 \/ Sqrt(t) = 0 THEN "ZeroDivisionError"
    ELSE IF k = 0 THEN "ZeroDivisionError"
    ELSE IF Div(s_t, k) <= 0 THEN "ValueError"
    ELSE "none"

\* line 224 with the sign of d1 lost
BSPutSameSide(d1, d2, s_term, pv) == -1 * Cdf(d1) * s_term + Cdf(-d2) * pv

\* line 224: p
BSPut(d1, d2, s_term, pv) == -1 * Cdf(-d1) * s_term + Cdf(-d2) * pv

\* line 223: c
BSCall(d1, d2, s_term, pv) == Cdf(d1) * s_term - Cdf(d2) * pv

\* line 221: s_term
BSSpotTerm(s_t, q, t) == Mul(s_t, Exp(-Mul(q, t)))

\* line 220: pv
BSStrikeTerm(k, rf, t) == Mul(k, Exp(-Mul(rf, t)))

black_scholes_form(t, k, s_t, rf, sigma, q) ==
    IF BSError(t, k, s_t, sigma) # "none" THEN Raise(BSError(t, k, s_t, sigma))
    ELSE LET vol == Mul(sigma, Sqrt(t))
             d1 == Mul(Div(Scale, vol),
                       Log(Div(s_t, k)) + Mul(rf - q + RDiv(Mul(sigma, sigma), 2), t))
             d2 == d1 - vol
             pv == BSStrikeTerm(k, rf, t)
             s_term == BSSpotTerm(s_t, q, t)
         IN  [ok |-> TRUE, err |-> "none",
              c |-> BSCall(d1, d2, s_term, pv),
              p |-> BSPut(d1, d2, s_term, pv),
              d1 |-> d1, d2 |-> d2]

\* get_greeks(..., only_delta=True), lines 44-50: <<delta_c, delta_p>>
get_greeks_only_delta(t, d1, q) ==
    LET cdf_d1 == Cdf(d1)
        delta_c == Mul(cdf_d1, Exp(-Mul(q, t)))
        delta_p == Mul(delta_c - Scale, Exp(-Mul(q, t)))
    IN  <<delta_c, delta_p>>

\* get_greeks in full mode, lines 44-45 and 57-76: the delta components of
\* its result; gamma (line 66) raises when t < 0 or s*sigma*sqrt(t) = 0
get_greeks_full(t, sigma, d1, s, q) ==
    IF t < 0 THEN Raise("ValueError")
    ELSE IF s = 0 \/ sigma = 0 \/ Sqrt(t) = 0 THEN Raise("ZeroDivisionError")
    ELSE LET cdf_d1 == Cdf(d1)
             delta_c == Mul(cdf_d1, Exp(-Mul(q, t)))
             delta_p == delta_c - Exp(-Mul(q, t))
         IN  [ok |-> TRUE, err |-> "none", delta_c |-> delta_c, delta_p |-> delta_p]

-----------------------------------------------------------------------------
(* The Path Simulator: sim *)

RECURSIVE SumSeq(_)
SumSeq(s) == IF s = <<>> THEN 0 ELSE Head(s) + SumSeq(Tail(s))

Last(s) == s[Len(s)]

Pct(n) == RDiv(n * Scale, 100)

\* the standard normal draws of np.random.normal (line 106): one standard
\* deviation down or up
Shocks == {-Scale, Scale}

\* int(t*days), lines 106-120
Steps(p) == (p.t * p.days) \div Scale

\* line 105: sigma_daily (days > 0)
SigmaDaily(p) == Div(p.sigma, Sqrt(p.days * Scale))

\* line 122 with the index one step ahead
TermNextStep(p, n) == p.t - RDiv((n + 1) * Scale, p.days)

\* line 122: term_t = t - i/days (i = 0 is the t of line 113)
Term(p, n) == p.t - RDiv(n * Scale, p.days)

\* the exception lines 113 and 123 raise, "none" when they raise none
D1Error(p, price, term) ==
    IF term < 0 THEN "ValueError"
    ELSE IF SigmaDaily(p) = 0 \/ Sqrt(term) = 0 THEN "ZeroDivisionError"
    ELSE IF p.k = 0 THEN "ZeroDivisionError"
    ELSE IF Div(price, p.k) <= 0 THEN "ValueError"
    ELSE "none"

\* lines 113 and 123: d1
SimD1(p, price, term) ==
    Mul(Div(Scale, Mul(SigmaDaily(p), Sqrt(term))),
        Log(Div(price, p.k))
          + Mul(RDiv(p.r - p.q, p.days) + RDiv(Mul(SigmaDaily(p), SigmaDaily(p)), 2), term))

\* line 121: st_s[i]
NextPrice(p, prev, rand) ==
    prev + RDiv(Mul(prev, p.r - p.q), p.days) + Mul(Mul(prev, SigmaDaily(p)), rand)

\* lines 133-134 with the price of the previous step
CashFlowPrevPrice(s, d, n, side) == -1 * s[n - 1] * (d[n][side] - d[n - 1][side])

\* lines 133-134: cf[n] for n past the first step
CashFlow(s, d, n, side) == -1 * s[n] * (d[n][side] - d[n - 1][side])

\* lines 128-134: the cash-flow series cf
CashFlows(p, s, d, c, put) ==
    [n \in 1..Len(s) |->
        IF n = 1 THEN <<c - d[1][1] * p.start, put - d[1][2] * p.start>>
        ELSE <<CashFlow(s, d, n, 1), CashFlow(s, d, n, 2)>>]

\* lines 137-139: pnl
Pnl(s, d, side) ==
    -1 * SumSeq([n \in 1..(Len(s) - 1) |-> (s[n + 1] - s[n]) * d[n][side]])

\* line 145 with the step's cash flow compounded as well
CompoundAll(prev, flow, p) == Mul(prev + flow, Exp(RDiv(p.rf, p.days)))

\* line 145: total_cf[i] from total_cf[i-1] and cf[i]
Compound(prev, flow, p) == Mul(prev, Exp(RDiv(p.rf, p.days))) + flow

\* lines 142-145: the financed-cash series total_cf
RECURSIVE TotalCf(_, _, _, _)
TotalCf(flows, n, side, p) ==
    IF n = 1 THEN flows[1][side]
    ELSE Compound(TotalCf(flows, n - 1, side, p), flows[n][side], p)

\* lines 127-154: the return value of sim once the loop has ended
SimResult(p, s, d) ==
    LET bs == black_scholes_form(p.t, p.k, s[1], p.rf, p.sigma, p.q)
    IN  IF ~bs.ok THEN Raise(bs.err)
        ELSE LET flows == CashFlows(p, s, d, bs.c, bs.p)
                 total == [n \in 1..Len(s) |->
                              <<TotalCf(flows, n, 1, p), TotalCf(flows, n, 2, p)>>]
                 csh == Last(total)
                 net == <<csh[1] + Last(d)[1] * Last(s) - Max(Last(s) - p.k, 0) * Scale,
                          csh[2] + Last(d)[2] * Last(s) - Max(p.k - Last(s), 0) * Scale>>
             IN  [ok |-> TRUE, err |-> "none",
                  st_s |-> s,
                  cf_sum |-> <<SumSeq([n \in 1..Len(s) |-> flows[n][1]]),
                               SumSeq([n \in 1..Len(s) |-> flows[n][2]])>>,
                  pnl |-> <<Pnl(s, d, 1), Pnl(s, d, 2)>>,
                  deltas |-> Last(d),
                  cash |-> csh,
                  net |-> net,
                  stat |-> <<Last(s), RDiv(net[1], Scale), RDiv(net[2], Scale),
                             RDiv(bs.c, Scale), RDiv(bs.p, Scale)>>,
                  c |-> bs.c, p |-> bs.p,
                  cf |-> flows, total_cf |-> total]

-----------------------------------------------------------------------------
(* The Simulation Aggregator: run_sim *)

Column(arr, side) == [j \in 1..Len(arr) |-> arr[j][side]]

\* np.sum(x)/runs, lines 192-199
Mean(col, runs) == RDiv(SumSeq(col), runs)

\* line 186: arr[i,:] = val
StoreRow(arr, n, val) == [arr EXCEPT ![n] = val]

\* line 186 with the slice cash[:] in place of cash[i:]
StoreAll(arr, n, val) == [j \in 1..Len(arr) |-> val]

\* line 186: cash[i:] = val, the value broadcast to the rows i, i+1, ...
StoreFrom(arr, n, val) == [j \in 1..Len(arr) |-> IF j >= n THEN val ELSE arr[j]]

\* lines 197 and 199: np.sum(np.dstack((K-prices[:,-1], prices[:,-1]-K)), axis=1)
UnwindCost(lastP, K) ==
    <<SumSeq([j \in 1..Len(lastP) |-> (K - lastP[j]) * Scale]),
      SumSeq([j \in 1..Len(lastP) |-> (lastP[j] - K) * Scale])>>

\* lines 192-204: the return value of run_sim (runs > 0, every path non-empty)
RunSimResult(p, prs, cfs, pnls, shrs, cshs) ==
    LET lastP == [j \in 1..Len(prs) |-> Last(prs[j])]
        cf_total == <<Mean(Column(cfs, 1), p.runs), Mean(Column(cfs, 2), p.runs)>>
        pnl_total == <<Mean(Column(pnls, 1), p.runs), Mean(Column(pnls, 2), p.runs)>>
        un_cost == UnwindCost(lastP, p.k)
    IN  [ok |-> TRUE, err |-> "none", nan |-> FALSE,
         value_c |-> Mean([j \in 1..Len(prs) |-> Max(lastP[j] - p.k, 0)], p.runs),
         value_p |-> Mean([j \in 1..Len(prs) |-> Max(p.k - lastP[j], 0)], p.runs),
         cf_total |-> cf_total,
         pnl_total |-> pnl_total,
         po_c |-> [j \in 1..Len(prs) |-> -1 * Max(lastP[j] - p.k, 0)],
         po_p |-> [j \in 1..Len(prs) |-> -1 * Max(p.k - lastP[j], 0)],
         shares |-> shrs,
         last_prices |-> lastP,
         op_price |-> <<pnl_total[1] + cf_total[1] + RDiv(un_cost[1], p.runs),
                        pnl_total[2] + cf_total[2] + RDiv(un_cost[2], p.runs)>>,
         cash_avg |-> <<Mean(Column(cshs, 1), p.runs), Mean(Column(cshs, 2), p.runs)>>]

-----------------------------------------------------------------------------
(* The arguments the program is called with *)

Rates == {Pct(0), Pct(5)}
Yields == {Pct(-5), Pct(0), Pct(5)}
Strikes == {8 * Scale, 10 * Scale, 12 * Scale}

\* run_sim takes an integer maturity (np.zeros((runs, t*days)), --mat type=int);
\* sim called on its own takes any maturity
Params ==
    {[entry |-> e, t |-> t, runs |-> n, r |-> Pct(5), rf |-> rf, sigma |-> Pct(20),
      start |-> 10 * Scale, days |-> d, k |-> k, q |-> q] :
        e \in {"run_sim"}, t \in {y * Scale : y \in 0..(MaxHalfYears \div 2)},
        n \in 0..MaxRuns, rf \in Rates, d \in 0..MaxDays, k \in Strikes, q \in Yields}
    \cup
    {[entry |-> e, t |-> t, runs |-> n, r |-> Pct(5), rf |-> rf, sigma |-> Pct(20),
      start |-> 10 * Scale, days |-> d, k |-> k, q |-> q] :
        e \in {"sim"}, t \in {RDiv(h * Scale, 2) : h \in 0..MaxHalfYears},
        n \in {0}, rf \in Rates, d \in 0..MaxDays, k \in Strikes, q \in Yields}

NoPar == [entry |-> "none"]

PureIdle ==
    /\ bsIn = NoPar /\ bsOut = NoRet
    /\ gkIn = NoPar /\ gkDelta = NoRet /\ gkFull = NoRet

SimIdle ==
    /\ err = "none" /\ ri = 0 /\ i = 0
    /\ st_s = <<>> /\ deltas = <<>> /\ terms = <<>> /\ ret = NoRet
    /\ prices = <<>> /\ cf = <<>> /\ pnl = <<>> /\ shares = <<>> /\ cash = <<>>
    /\ stats = <<>> /\ hist = <<>> /\ fileWritten = FALSE /\ out = NoRet
    /\ simCalls = 0

Init ==
    /\ par \in Params
    /\ pc = par.entry
    /\ SimIdle
    /\ PureIdle

-----------------------------------------------------------------------------
(* sim, step by step *)

Fail(e) ==
    /\ pc' = "error"
    /\ err' = e

\* lines 105-113 with the store st_s[0] = start skipped on an empty path
SimBeginErrorNoIndex(p) ==
    IF p.days = 0 THEN "ZeroDivisionError"
    ELSE D1Error(p, p.start, p.t)

\* the exception lines 105-113 raise, "none" when they raise none:
\* sigma / math.sqrt(days) with days = 0 (line 105), st_s[0] = start on an
\* array of length 0 (line 110), d1 (line 113)
SimBeginError(p) ==
    IF p.days = 0 THEN "ZeroDivisionError"
    ELSE IF Steps(p) = 0 THEN "IndexError"
    ELSE D1Error(p, p.start, p.t)

\* lines 104-117: up to the first delta
SimBegin ==
    /\ pc = "sim"
    /\ LET e == SimBeginError(par)
       IN  IF e # "none"
           THEN /\ Fail(e)
                /\ UNCHANGED <<st_s, deltas, terms, i>>
           ELSE /\ st_s' = <<par.start>>
                /\ terms' = <<par.t>>
                /\ deltas' = <<get_greeks_only_delta(par.t, SimD1(par, par.start, par.t), par.q)>>
                /\ i' = 1
                /\ pc' = "sim_loop"
                /\ err' = err
    /\ simCalls' = simCalls + 1
    /\ UNCHANGED <<par, ri, ret, prices, cf, pnl, shares, cash, stats, hist, fileWritten, out,
                   pureVars>>

\* lines 120-125: one pass of the loop
SimStep ==
    /\ pc = "sim_loop"
    /\ i < Steps(par)
    /\ \E rand \in Shocks :
         LET price == NextPrice(par, Last(st_s), rand)
             term_t == Term(par, i)
             e == D1Error(par, price, term_t)
         IN  /\ st_s' = Append(st_s, price)
             /\ terms' = Append(terms, term_t)
             /\ IF e # "none"
                THEN /\ Fail(e)
                     /\ UNCHANGED <<deltas, i>>
                ELSE /\ deltas' = Append(deltas,
                            get_greeks_only_delta(term_t, SimD1(par, price, term_t), par.q))
                     /\ i' = i + 1
                     /\ UNCHANGED <<pc, err>>
    /\ UNCHANGED <<par, ri, ret, prices, cf, pnl, shares, cash, stats, hist, fileWritten, out,
                   simCalls, pureVars>>

\* lines 127-154: cash flows, P&L, financed cash, net, the return
SimFinish ==
    /\ pc = "sim_loop"
    /\ i >= Steps(par)
    /\ LET res == SimResult(par, st_s, deltas)
       IN  IF res.ok
           THEN /\ ret' = res
                /\ hist' = Append(hist, res)
                /\ pc' = "sim_ret"
                /\ err' = err
           ELSE /\ Fail(res.err)
                /\ UNCHANGED <<ret, hist>>
    /\ UNCHANGED <<par, ri, i, st_s, deltas, terms, prices, cf, pnl, shares, cash, stats,
                   fileWritten, out, simCalls, pureVars>>

-----------------------------------------------------------------------------
(* run_sim, step by step *)

Zeros(n) == [j \in 1..n |-> 0]

\* lines 180-182: the result arrays, all zero
RunSimBegin ==
    /\ pc = "run_sim"
    /\ prices' = [j \in 1..par.runs |-> Zeros(Steps(par))]
    /\ cf' = [j \in 1..par.runs |-> <<0, 0>>]
    /\ pnl' = [j \in 1..par.runs |-> <<0, 0>>]
    /\ shares' = [j \in 1..par.runs |-> <<0, 0>>]
    /\ cash' = [j \in 1..par.runs |-> <<0, 0>>]
    /\ stats' = [j \in 1..par.runs |-> Zeros(5)]
    /\ ri' = 0
    /\ pc' = "run_loop"
    /\ UNCHANGED <<par, err, i, st_s, deltas, terms, ret, hist, fileWritten, out,
                   simCalls, pureVars>>

\* lines 185-186: the next invocation of sim
RunSimCall ==
    /\ pc = "run_loop"
    /\ ri < par.runs
    /\ pc' = "sim"
    /\ i' = 0 /\ st_s' = <<>> /\ deltas' = <<>> /\ terms' = <<>> /\ ret' = NoRet
    /\ UNCHANGED <<par, err, ri, prices, cf, pnl, shares, cash, stats, hist, fileWritten, out,
                   simCalls, pureVars>>

\* line 186: the tuple sim returned, unpacked into the arrays
RunSimStore ==
    /\ pc = "sim_ret"
    /\ par.entry = "run_sim"
    /\ prices' = StoreRow(prices, ri + 1, ret.st_s)
    /\ cf' = StoreRow(cf, ri + 1, ret.cf_sum)
    /\ pnl' = StoreRow(pnl, ri + 1, ret.pnl)
    /\ shares' = StoreRow(shares, ri + 1, ret.deltas)
    /\ cash' = StoreFrom(cash, ri + 1, ret.cash)
    /\ stats' = StoreRow(stats, ri + 1, ret.stat)
    /\ ri' = ri + 1
    /\ pc' = "run_loop"
    /\ UNCHANGED <<par, err, i, st_s, deltas, terms, ret, hist, fileWritten, out,
                   simCalls, pureVars>>

\* lines 189-204: the results file, the aggregate statistics, the return.
\* prices[:,-1] (line 192) raises IndexError on paths of length 0; dividing
\* numpy sums by runs = 0 yields nan
RunSimFinish ==
    /\ pc = "run_loop"
    /\ ri >= par.runs
    /\ fileWritten' = TRUE
    /\ IF Steps(par) = 0
       THEN /\ Fail("IndexError")
            /\ out' = out
       ELSE /\ out' = IF par.runs = 0
                      THEN [ok |-> TRUE, err |-> "none", nan |-> TRUE]
                      ELSE RunSimResult(par, prices, cf, pnl, shares, cash)
            /\ pc' = "done"
            /\ err' = err
    /\ UNCHANGED <<par, ri, i, st_s, deltas, terms, ret, prices, cf, pnl, shares, cash, stats,
                   hist, simCalls, pureVars>>

Next ==
    \/ SimBegin
    \/ SimStep
    \/ SimFinish
    \/ RunSimBegin
    \/ RunSimCall
    \/ RunSimStore
    \/ RunSimFinish

Spec == Init /\ [][Next]_vars

-----------------------------------------------------------------------------
(* black_scholes_form called on its own, on valid and invalid arguments *)

BSInputs ==
    [t : {RDiv(h * Scale, 2) : h \in -1..MaxHalfYears},
     k : {-10 * Scale, 0, 10 * Scale, 12 * Scale},
     s_t : {-10 * Scale, 0, 8 * Scale, 10 * Scale},
     rf : Rates,
     sigma : {Pct(-20), 0, Pct(20), Pct(40)},
     q : Yields]

InitBS ==
    /\ par = NoPar
    /\ pc = "bs"
    /\ SimIdle
    /\ bsIn \in BSInputs
    /\ bsOut = NoRet
    /\ gkIn = NoPar /\ gkDelta = NoRet /\ gkFull = NoRet

\* lines 216-226
BSApply ==
    /\ pc = "bs"
    /\ bsOut' = black_scholes_form(bsIn.t, bsIn.k, bsIn.s_t, bsIn.rf, bsIn.sigma, bsIn.q)
    /\ pc' = "bs_done"
    /\ UNCHANGED <<par, err, ri, i, st_s, deltas, terms, ret, prices, cf, pnl, shares, cash,
                   stats, hist, fileWritten, out, simCalls, bsIn, gkIn, gkDelta, gkFull>>

NextBS == BSApply

SpecBS == InitBS /\ [][NextBS]_vars

-----------------------------------------------------------------------------
(* get_greeks called on its own, in delta-only and in full mode *)

GreeksInputs ==
    [t : {RDiv(h * Scale, 2) : h \in 0..MaxHalfYears},
     sigma : {Pct(20)},
     d1 : {RDiv(h * Scale, 2) : h \in -6..6},
     s : {10 * Scale},
     q : Yields]

InitGK ==
    /\ par = NoPar
    /\ pc = "greeks"
    /\ SimIdle
    /\ bsIn = NoPar /\ bsOut = NoRet
    /\ gkIn \in GreeksInputs
    /\ gkDelta = NoRet /\ gkFull = NoRet

\* lines 43-50: only_delta=True
GreeksDeltaOnly ==
    /\ pc = "greeks"
    /\ ~gkDelta.ok
    /\ gkDelta' = LET d == get_greeks_only_delta(gkIn.t, gkIn.d1, gkIn.q)
                  IN  [ok |-> TRUE, err |-> "none", delta_c |-> d[1], delta_p |-> d[2]]
    /\ UNCHANGED <<simVars, bsIn, bsOut, gkIn, gkFull>>

\* lines 43-45, 56-76: neither flag set
GreeksFull ==
    /\ pc = "greeks"
    /\ gkFull = NoRet
    /\ gkFull' = get_greeks_full(gkIn.t, gkIn.sigma, gkIn.d1, gkIn.s, gkIn.q)
    /\ UNCHANGED <<simVars, bsIn, bsOut, gkIn, gkDelta>>

NextGK == GreeksDeltaOnly \/ GreeksFull

SpecGK == InitGK /\ [][NextGK]_vars

-----------------------------------------------------------------------------
(* Properties *)

\* C1: whenever black_scholes_form is given maturity, volatility, spot and
\* strike all positive, the prices it returns satisfy put-call parity:
\* call - put = spot*e^(-q*T) - strike*e^(-rf*T).
C1_PutCallParity ==
    (pc = "bs_done" /\ bsIn.t > 0 /\ bsIn.sigma > 0 /\ bsIn.s_t > 0 /\ bsIn.k > 0)
        => /\ bsOut.ok
           /\ bsOut.c - bsOut.p =
                Scale * (Mul(bsIn.s_t, Exp(-Mul(bsIn.q, bsIn.t)))
                           - Mul(bsIn.k, Exp(-Mul(bsIn.rf, bsIn.t))))

C1_Witness ==
    /\ pc = "bs_done" /\ bsOut.ok
    /\ bsIn.t > 0 /\ bsIn.sigma > 0 /\ bsIn.s_t > 0 /\ bsIn.k > 0
    /\ bsIn.q > 0 /\ bsIn.rf > 0 /\ bsIn.s_t # bsIn.k
    /\ bsOut.c > 0 /\ bsOut.p > 0

\* C3: black_scholes_form raises, and returns no prices, whenever maturity,
\* volatility, spot or strike is not positive.
C3_InvalidParametersFail ==
    (pc = "bs_done" /\ (bsIn.t <= 0 \/ bsIn.sigma <= 0 \/ bsIn.s_t <= 0 \/ bsIn.k <= 0))
        => ~bsOut.ok

\* C10: on the same (t, d1, q), delta-only mode and full mode of get_greeks
\* return the same call delta and the same put delta.
C10_DeltaModesAgree ==
    (gkDelta.ok /\ gkFull.ok)
        => (gkDelta.delta_c = gkFull.delta_c /\ gkDelta.delta_p = gkFull.delta_p)

\* C2: every delta sim stores lies within the discount factor of its step:
\* call delta in [0, e^(-q*term)], put delta in [-e^(-q*term), 0].
C2_DeltaBounds ==
    \A n \in 1..Len(deltas) :
        LET disc == Exp(-Mul(par.q, terms[n]))
        IN  /\ 0 <= deltas[n][1] /\ deltas[n][1] <= disc
            /\ -disc <= deltas[n][2] /\ deltas[n][2] <= 0

\* C4: once sim has been entered with zero steps, the program has ended in
\* an exception with no price, delta or cash flow computed, no path
\* returned, no results file written and no aggregate statistics returned.
C4_ZeroStepsFailFast ==
    (par.entry # "none" /\ Steps(par) = 0 /\ simCalls >= 1)
        => /\ pc = "error" /\ err # "none"
           /\ st_s = <<>> /\ deltas = <<>> /\ terms = <<>>
           /\ ~ret.ok /\ hist = <<>>
           /\ ~fileWritten /\ ~out.ok

C4_Witness ==
    /\ par.entry = "run_sim" /\ par.runs >= 1 /\ par.days >= 1
    /\ Steps(par) = 0 /\ simCalls = 1
    /\ pc = "error" /\ err = "IndexError"

\* C5: in the path sim returns, cumulative[0] = cashflow[0], each later
\* cumulative[i] = cumulative[i-1]*e^(rf/steps_per_year) + cashflow[i], and
\* the cash returned is the last cumulative value.
C5_FinancedCashRecurrence ==
    ret.ok =>
        /\ Len(ret.total_cf) = Steps(par) /\ Len(ret.cf) = Steps(par)
        /\ ret.total_cf[1] = ret.cf[1]
        /\ \A n \in 2..Steps(par) : \A side \in 1..2 :
               ret.total_cf[n][side] =
                   RDiv(ret.total_cf[n - 1][side] * Exp(RDiv(par.rf, par.days)), Scale)
                     + ret.cf[n][side]
        /\ ret.cash = ret.total_cf[Steps(par)]

C5_Witness ==
    /\ ret.ok /\ Steps(par) >= 3 /\ par.rf > 0
    /\ ret.total_cf[2] # ret.cf[2]
    /\ ret.cash # ret.cf_sum

\* C6: the empirical price run_sim returns is, per side, average raw P&L +
\* average total cash flow + the average over the paths of minus the payoff
\* (-max(terminal - strike, 0) for the call, -max(strike - terminal, 0) for
\* the put).
C6_EmpiricalPrice ==
    (pc = "done" /\ ~out.nan) =>
        /\ out.op_price[1] = out.pnl_total[1] + out.cf_total[1]
              + RDiv(SumSeq([j \in 1..par.runs |->
                        -1 * Max(Last(prices[j]) - par.k, 0) * Scale]), par.runs)
        /\ out.op_price[2] = out.pnl_total[2] + out.cf_total[2]
              + RDiv(SumSeq([j \in 1..par.runs |->
                        -1 * Max(par.k - Last(prices[j]), 0) * Scale]), par.runs)

\* C7: with at least one step, every remaining time sim computes and hands
\* to get_greeks (step 0 and every pass of the loop) is strictly positive,
\* its square root included, and no step fails on it.
C7_TermPositive ==
    (par.entry # "none" /\ Steps(par) >= 1 /\ par.days > 0)
        => /\ \A n \in 1..Len(terms) : terms[n] > 0 /\ Sqrt(terms[n]) > 0
           /\ pc # "error"
           /\ pc = "sim_ret" => (Len(terms) = Steps(par) /\ Len(deltas) = Steps(par))

C7_Witness ==
    /\ pc = "sim_ret" /\ Steps(par) >= 3
    /\ Len(terms) = Steps(par)
    /\ terms[1] = par.t
    /\ Last(terms) < par.t

\* C8: once the loop of run_sim has ended, row i of cash, cf and pnl holds
\* what the i-th invocation of sim returned, and the averages returned are
\* the means over the paths of each path's own values.
C8_RowsAreOwnPaths ==
    (par.entry = "run_sim" /\ pc \in {"run_loop", "done"} /\ ri >= par.runs)
        => /\ Len(hist) = par.runs
           /\ \A j \in 1..par.runs :
                 /\ cash[j] = hist[j].cash
                 /\ cf[j] = hist[j].cf_sum
                 /\ pnl[j] = hist[j].pnl
           /\ (pc = "done" /\ ~out.nan) =>
                 \A side \in 1..2 :
                    /\ out.cash_avg[side] =
                         RDiv(SumSeq([j \in 1..par.runs |-> hist[j].cash[side]]), par.runs)
                    /\ out.cf_total[side] =
                         RDiv(SumSeq([j \in 1..par.runs |-> hist[j].cf_sum[side]]), par.runs)
                    /\ out.pnl_total[side] =
                         RDiv(SumSeq([j \in 1..par.runs |-> hist[j].pnl[side]]), par.runs)

C8_Witness ==
    /\ pc = "done" /\ par.runs >= 2 /\ ~out.nan
    /\ hist[1].cash # hist[2].cash
    /\ cash[1] = hist[1].cash

\* C9: in the path sim returns, on each side, total cash flow + raw P&L +
\* final delta * final price equals the closed-form price at inception.
C9_HedgeAccountsBalance ==
    ret.ok =>
        LET bs == black_scholes_form(par.t, par.k, par.start, par.rf, par.sigma, par.q)
        IN  /\ bs.ok
            /\ ret.cf_sum[1] + ret.pnl[1] + ret.deltas[1] * Last(ret.st_s) = bs.c
            /\ ret.cf_sum[2] + ret.pnl[2] + ret.deltas[2] * Last(ret.st_s) = bs.p

C9_Witness ==
    /\ ret.ok /\ Steps(par) >= 3
    /\ deltas[1] # deltas[2] /\ deltas[2] # deltas[3]
    /\ ret.pnl[1] # 0 /\ ret.pnl[2] # 0
    /\ ret.cf_sum[1] # ret.cf[1][1]

=============================================================================
